---- MODULE Spec2Model ----
(***************************************************************************)
(* devstuff-rs: the command dispatch of main() and the input resolution of *)
(* for_input() in src/main.rs, as one single-shot run of the process.      *)
(*                                                                         *)
(* A text is a sequence of characters.  An Option<String> is a sequence of *)
(* at most one text.  The transform providers (minify, serde_json, base64, *)
(* crypto_hash, blake3, uuid) are external crates: what a provider answers *)
(* for a given text is chosen among the outcomes its signature allows.     *)
(***************************************************************************)
EXTENDS Integers, Sequences, FiniteSets, TLC

(* ------------------------------ bounds --------------------------------- *)
MaxLen == 1
MaxLines == 2

Chars == {"a", " "}
NL == "\n"

RECURSIVE TextsUpTo(_)
TextsUpTo(n) ==
    IF n = 0 THEN {<<>>}
    ELSE LET shorter == TextsUpTo(n - 1)
         IN  shorter \cup {Append(t, c) : t \in {s \in shorter : Len(s) = n - 1}, c \in Chars}

Text == TextsUpTo(MaxLen)

(* ------------------------- the command tree ---------------------------- *)
HashAction == {"hash md5", "hash sha1", "hash sha256", "hash sha512", "hash blake3"}
HtmlAction == {"html minify"}
JsonAction == {"json minify", "json unminify"}
Base64Action == {"b64 encode", "b64 decode"}
LeafActions == HtmlAction \cup JsonAction \cup Base64Action \cup HashAction
ToolType == LeafActions \cup {"uuid"}
Bogus == "bogus"

None == <<>>
Some(v) == <<v>>
InputSource == [input : {None} \cup {Some(v) : v \in Text}, raw : BOOLEAN]

(* one item of stdin.lock().lines(): Ok(line) or Err(io error) *)
LineItem == {[ok |-> TRUE, line |-> t] : t \in Text} \cup {[ok |-> FALSE, line |-> <<>>]}

RECURSIVE SeqsUpTo(_, _)
SeqsUpTo(S, n) ==
    IF n = 0 THEN {<<>>}
    ELSE LET shorter == SeqsUpTo(S, n - 1)
         IN  shorter \cup {Append(q, x) : q \in {s \in shorter : Len(s) = n - 1}, x \in S}

(* std::fs::read_to_string: Ok(content) or Err (missing, unreadable, not UTF-8) *)
FileResult == {[ok |-> TRUE, content |-> t] : t \in Text} \cup {[ok |-> FALSE, content |-> <<>>]}

(* ----------------------------- messages -------------------------------- *)
NothingToDo == "nothing; to do here!"
NoInputMsg == "Not input source found. You can either pipe the input or specify a file or plaintext"
FileReadCtx == "Reading from file '{}', if this is raw input then specify --raw flag"
IoError == "std::io::Error"
StdinPanic == "Could not read line from standard in"
UsageMsg == "clap usage error"

(* the context label attached at the dispatch boundary *)
Label(c) ==
    CASE c = "html minify" -> "Minify HTML"
      [] c = "json minify" -> "Minify JSON"
      [] c = "json unminify" -> "Minify JSON"
      [] c = "b64 encode" -> "Base64 Encoding"
      [] c = "b64 decode" -> "Base64 Decoding"
      [] c = "hash md5" -> "MD5 Hash"
      [] c = "hash sha1" -> "SHA1 Hash"
      [] c = "hash sha256" -> "SHA256 Hash"
      [] c = "hash sha512" -> "SHA512 Hash"
      [] c = "hash blake3" -> "Blake3 Hash"

(* what the provider of a leaf action can answer, and the error it raises *)
ProviderOutcomes(c) ==
    CASE c = "json unminify" -> {"ok", "invalid json"}
      [] c = "b64 decode" -> {"ok", "invalid base64", "invalid utf8"}
      [] OTHER -> {"ok"}

TransformErr(c, o) ==
    CASE o = "invalid json" -> <<"Parse Valid JSON", "serde_json::Error">>
      [] o = "invalid base64" -> <<"base64::DecodeError">>
      [] o = "invalid utf8" -> <<"std::string::FromUtf8Error">>

TransformErrors ==
    {"Parse Valid JSON", "serde_json::Error", "base64::DecodeError", "std::string::FromUtf8Error"}

(* lines.join("\n") *)
RECURSIVE Join(_)
Join(ls) ==
    IF Len(ls) = 0 THEN <<>>
    ELSE IF Len(ls) = 1 THEN ls[1]
    ELSE ls[1] \o <<NL>> \o Join(Tail(ls))

(* ------------------------------- state --------------------------------- *)
VARIABLES
    pc,         \* position of the run
    cmd,        \* the subcommand path on the command line, or Bogus
    is,         \* the positional value and --raw flag on the command line
    tty,        \* atty::is(atty::Stream::Stdin)
    stdin,      \* what stdin.lock().lines() will yield, in order
    stdinPos,   \* number of items taken from stdin so far
    lines,      \* the Vec the piped lines are pushed on
    fileReads,  \* every read_to_string made: path and result
    calls,      \* every invocation of the transform closure: argument and call site
    outcome,    \* what the provider answered ("none" before)
    result,     \* the anyhow::Result travelling outward: "none", "Ok" or "Err"
    err,        \* the context chain of the error, outermost first
    stdout,     \* lines printed on standard output
    stderr,     \* diagnostics printed on standard error
    exitCode    \* -1 while running, then the process exit code

vars == <<pc, cmd, is, tty, stdin, stdinPos, lines, fileReads, calls, outcome,
          result, err, stdout, stderr, exitCode>>

env == <<cmd, is, tty, stdin>>

Init ==
    /\ pc = "start"
    /\ cmd \in ToolType \cup {Bogus}
    /\ is \in InputSource
    /\ tty \in BOOLEAN
    /\ stdin \in SeqsUpTo(LineItem, MaxLines)
    /\ stdinPos = 0
    /\ lines = <<>>
    /\ fileReads = <<>>
    /\ calls = <<>>
    /\ outcome = "none"
    /\ result = "none"
    /\ err = <<>>
    /\ stdout = <<>>
    /\ stderr = <<>>
    /\ exitCode = -1

(* Args::parse(): uuid is a unit variant, so it takes no positional and no flag *)
ValidArgs ==
    \/ cmd \in LeafActions
    \/ cmd = "uuid" /\ is.input = None /\ ~is.raw

ParseOk ==
    /\ pc = "start"
    /\ ValidArgs
    /\ pc' = "dispatch"
    /\ UNCHANGED <<env, stdinPos, lines, fileReads, calls, outcome, result, err,
                   stdout, stderr, exitCode>>

UsageError ==
    /\ pc = "start"
    /\ ~ValidArgs
    /\ stderr' = Append(stderr, <<UsageMsg>>)
    /\ exitCode' = 2
    /\ pc' = "done"
    /\ UNCHANGED <<env, stdinPos, lines, fileReads, calls, outcome, result, err, stdout>>

DispatchLeaf ==
    /\ pc = "dispatch"
    /\ cmd \in LeafActions
    /\ pc' = "for_input"
    /\ UNCHANGED <<env, stdinPos, lines, fileReads, calls, outcome, result, err,
                   stdout, stderr, exitCode>>

DispatchUuid_ViaInput ==
    /\ pc = "dispatch"
    /\ cmd = "uuid"
    /\ pc' = "for_input"
    /\ UNCHANGED <<env, stdinPos, lines, fileReads, calls, outcome, result, err,
                   stdout, stderr, exitCode>>

DispatchUuid ==
    /\ pc = "dispatch"
    /\ cmd = "uuid"
    /\ stdout' = Append(stdout, [fmt |-> "{}", by |-> "uuid", arg |-> <<>>])
    /\ result' = "Ok"
    /\ pc' = "return"
    /\ UNCHANGED <<env, stdinPos, lines, fileReads, calls, outcome, err, stderr, exitCode>>

(* ---------------------------- for_input -------------------------------- *)
Trim(t) == SelectSeq(t, LAMBDA c : c # " ")

ForInputRaw_Trimmed ==
    /\ pc = "for_input"
    /\ tty
    /\ is.input # None
    /\ is.raw
    /\ calls' = Append(calls, [arg |-> Trim(is.input[1]), from |-> "raw"])
    /\ pc' = "f"
    /\ UNCHANGED <<env, stdinPos, lines, fileReads, outcome, result, err,
                   stdout, stderr, exitCode>>

ForInputRaw ==
    /\ pc = "for_input"
    /\ tty
    /\ is.input # None
    /\ is.raw
    /\ calls' = Append(calls, [arg |-> is.input[1], from |-> "raw"])
    /\ pc' = "f"
    /\ UNCHANGED <<env, stdinPos, lines, fileReads, outcome, result, err,
                   stdout, stderr, exitCode>>

ForInputFile_FallBackToLiteral ==
    /\ pc = "for_input"
    /\ tty
    /\ is.input # None
    /\ ~is.raw
    /\ \E r \in FileResult :
        /\ fileReads' = Append(fileReads, [path |-> is.input[1], ok |-> r.ok])
        /\ calls' = Append(calls, [arg |-> IF r.ok THEN r.content ELSE is.input[1],
                                   from |-> "file"])
        /\ pc' = "f"
        /\ UNCHANGED <<result, err>>
    /\ UNCHANGED <<env, stdinPos, lines, outcome, stdout, stderr, exitCode>>

ForInputFile ==
    /\ pc = "for_input"
    /\ tty
    /\ is.input # None
    /\ ~is.raw
    /\ \E r \in FileResult :
        /\ fileReads' = Append(fileReads, [path |-> is.input[1], ok |-> r.ok])
        /\ IF r.ok
           THEN /\ calls' = Append(calls, [arg |-> r.content, from |-> "file"])
                /\ pc' = "f"
                /\ UNCHANGED <<result, err>>
           ELSE /\ result' = "Err"
                /\ err' = <<FileReadCtx, IoError>>
                /\ pc' = "context"
                /\ UNCHANGED calls
    /\ UNCHANGED <<env, stdinPos, lines, outcome, stdout, stderr, exitCode>>

ForInputNone_ReadStdin ==
    /\ pc = "for_input"
    /\ tty
    /\ is.input = None
    /\ lines' = <<>>
    /\ pc' = "read"
    /\ UNCHANGED <<env, stdinPos, fileReads, calls, outcome, result, err,
                   stdout, stderr, exitCode>>

ForInputNone ==
    /\ pc = "for_input"
    /\ tty
    /\ is.input = None
    /\ stdout' = Append(stdout, [fmt |-> NothingToDo, by |-> "for_input", arg |-> <<>>])
    /\ result' = "Err"
    /\ err' = <<NoInputMsg>>
    /\ pc' = "context"
    /\ UNCHANGED <<env, stdinPos, lines, fileReads, calls, outcome, stderr, exitCode>>

ForInputPiped_UnlessRaw ==
    /\ pc = "for_input"
    /\ ~tty
    /\ IF is.input # None /\ is.raw
       THEN /\ calls' = Append(calls, [arg |-> is.input[1], from |-> "raw"])
            /\ pc' = "f"
            /\ UNCHANGED lines
       ELSE /\ lines' = <<>>
            /\ pc' = "read"
            /\ UNCHANGED calls
    /\ UNCHANGED <<env, stdinPos, fileReads, outcome, result, err,
                   stdout, stderr, exitCode>>

ForInputPiped ==
    /\ pc = "for_input"
    /\ ~tty
    /\ lines' = <<>>
    /\ pc' = "read"
    /\ UNCHANGED <<env, stdinPos, fileReads, calls, outcome, result, err,
                   stdout, stderr, exitCode>>

ReadLineOk ==
    /\ pc = "read"
    /\ stdinPos < Len(stdin)
    /\ stdin[stdinPos + 1].ok
    /\ lines' = Append(lines, stdin[stdinPos + 1].line)
    /\ stdinPos' = stdinPos + 1
    /\ UNCHANGED <<pc, env, fileReads, calls, outcome, result, err,
                   stdout, stderr, exitCode>>

ReadLineErr_StopReading ==
    /\ pc = "read"
    /\ stdinPos < Len(stdin)
    /\ ~stdin[stdinPos + 1].ok
    /\ stdinPos' = stdinPos + 1
    /\ calls' = Append(calls, [arg |-> Join(lines), from |-> "stdin"])
    /\ pc' = "f"
    /\ UNCHANGED <<env, lines, fileReads, outcome, result, err, stdout, stderr, exitCode>>

(* line.expect(..) on an Err item: the process panics *)
ReadLineErr ==
    /\ pc = "read"
    /\ stdinPos < Len(stdin)
    /\ ~stdin[stdinPos + 1].ok
    /\ stdinPos' = stdinPos + 1
    /\ stderr' = Append(stderr, <<StdinPanic>>)
    /\ exitCode' = 101
    /\ pc' = "done"
    /\ UNCHANGED <<env, lines, fileReads, calls, outcome, result, err, stdout>>

ReadEof_EmptyIsNoInput ==
    /\ pc = "read"
    /\ stdinPos = Len(stdin)
    /\ IF lines = <<>>
       THEN /\ result' = "Err"
            /\ err' = <<NoInputMsg>>
            /\ pc' = "context"
            /\ UNCHANGED calls
       ELSE /\ calls' = Append(calls, [arg |-> Join(lines), from |-> "stdin"])
            /\ pc' = "f"
            /\ UNCHANGED <<result, err>>
    /\ UNCHANGED <<env, stdinPos, lines, fileReads, outcome, stdout, stderr, exitCode>>

ReadEof ==
    /\ pc = "read"
    /\ stdinPos = Len(stdin)
    /\ calls' = Append(calls, [arg |-> Join(lines), from |-> "stdin"])
    /\ pc' = "f"
    /\ UNCHANGED <<env, stdinPos, lines, fileReads, outcome, result, err,
                   stdout, stderr, exitCode>>

(* ------------------------ the transform closures ----------------------- *)
TransformOk ==
    /\ pc = "f"
    /\ "ok" \in ProviderOutcomes(cmd)
    /\ outcome' = "ok"
    /\ stdout' = Append(stdout, [fmt |-> "{}", by |-> cmd, arg |-> calls[Len(calls)].arg])
    /\ result' = "Ok"
    /\ pc' = "context"
    /\ UNCHANGED <<env, stdinPos, lines, fileReads, calls, err, stderr, exitCode>>

TransformFail_PrintFirst ==
    /\ pc = "f"
    /\ \E o \in ProviderOutcomes(cmd) \ {"ok"} :
        /\ outcome' = o
        /\ err' = TransformErr(cmd, o)
    /\ stdout' = Append(stdout, [fmt |-> "{}", by |-> cmd, arg |-> calls[Len(calls)].arg])
    /\ result' = "Err"
    /\ pc' = "context"
    /\ UNCHANGED <<env, stdinPos, lines, fileReads, calls, stderr, exitCode>>

TransformFail ==
    /\ pc = "f"
    /\ \E o \in ProviderOutcomes(cmd) \ {"ok"} :
        /\ outcome' = o
        /\ err' = TransformErr(cmd, o)
    /\ result' = "Err"
    /\ pc' = "context"
    /\ UNCHANGED <<env, stdinPos, lines, fileReads, calls, stdout, stderr, exitCode>>

(* .context(label) on the Result of for_input *)
Context ==
    /\ pc = "context"
    /\ err' = IF result = "Err" THEN <<Label(cmd)>> \o err ELSE err
    /\ pc' = "return"
    /\ UNCHANGED <<env, stdinPos, lines, fileReads, calls, outcome, result,
                   stdout, stderr, exitCode>>

(* main returns: Ok(()) exits 0, Err(e) prints the chain on stderr and exits 1 *)
MainReturn ==
    /\ pc = "return"
    /\ IF result = "Ok"
       THEN /\ exitCode' = 0
            /\ UNCHANGED stderr
       ELSE /\ exitCode' = 1
            /\ stderr' = Append(stderr, err)
    /\ pc' = "done"
    /\ UNCHANGED <<env, stdinPos, lines, fileReads, calls, outcome, result, err, stdout>>

Next ==
    \/ ParseOk
    \/ UsageError
    \/ DispatchLeaf
    \/ DispatchUuid
    \/ ForInputRaw
    \/ ForInputFile
    \/ ForInputNone
    \/ ForInputPiped
    \/ ReadLineOk
    \/ ReadLineErr
    \/ ReadEof
    \/ TransformOk
    \/ TransformFail
    \/ Context
    \/ MainReturn

Spec == Init /\ [][Next]_vars

(* ============================ properties =============================== *)
Range(q) == {q[i] : i \in 1..Len(q)}
AllOk(items) == \A i \in 1..Len(items) : items[i].ok
LinesOf(items) == [i \in 1..Len(items) |-> items[i].line]
Resolved == pc \in {"f", "context", "return", "done"}
InfoLine == [fmt |-> NothingToDo, by |-> "for_input", arg |-> <<>>]
TransformFailed == outcome \notin {"none", "ok"}

(* C1: for a non-uuid leaf action with piped standard input, whatever the  *)
(* positional value and the raw flag, the transform is only ever invoked   *)
(* from the stdin branch with the stdin lines joined by newlines, it is    *)
(* invoked once every line has been read, and no file is ever opened.      *)
C1_PipedInputWins ==
    (cmd \in LeafActions /\ ~tty) =>
        /\ fileReads = <<>>
        /\ calls # <<>> =>
            /\ AllOk(stdin)
            /\ calls = <<[arg |-> Join(LinesOf(stdin)), from |-> "stdin"]>>
        /\ (Resolved /\ AllOk(stdin)) => calls # <<>>

C1_Witness ==
    /\ cmd \in LeafActions /\ ~tty
    /\ is.input = Some(<<"a">>) /\ is.raw
    /\ stdin = <<[ok |-> TRUE, line |-> <<" ">>], [ok |-> TRUE, line |-> <<"a">>]>>
    /\ pc = "done"
    /\ calls = <<[arg |-> <<" ", NL, "a">>, from |-> "stdin"]>>

(* C2: for a non-uuid leaf action on a terminal with a positional value    *)
(* and raw set, the transform is invoked with exactly the positional       *)
(* value, and neither a file nor standard input is read.                   *)
C2_RawVerbatim ==
    (cmd \in LeafActions /\ tty /\ is.input # None /\ is.raw) =>
        /\ fileReads = <<>>
        /\ stdinPos = 0
        /\ Resolved => calls = <<[arg |-> is.input[1], from |-> "raw"]>>

C2_Witness ==
    /\ cmd \in LeafActions /\ tty /\ is.raw
    /\ is.input = Some(<<" ">>)
    /\ pc = "done"
    /\ calls = <<[arg |-> <<" ">>, from |-> "raw"]>>

(* C3: for a non-uuid leaf action on a terminal with raw unset, when the   *)
(* file named by the positional value cannot be read, the run fails with   *)
(* the file-read error that suggests --raw, the transform is never invoked *)
(* (no transform error is in the chain), and the exit code is non-zero.    *)
C3_FileReadError ==
    (cmd \in LeafActions /\ tty /\ is.input # None /\ ~is.raw
        /\ fileReads # <<>> /\ ~fileReads[1].ok) =>
        /\ calls = <<>>
        /\ outcome = "none"
        /\ result = "Err"
        /\ FileReadCtx \in Range(err)
        /\ Range(err) \cap TransformErrors = {}
        /\ pc = "done" => (exitCode > 0 /\ stderr = <<err>>)

C3_Witness ==
    /\ cmd \in LeafActions /\ tty /\ is.input # None /\ ~is.raw
    /\ fileReads = <<[path |-> is.input[1], ok |-> FALSE]>>
    /\ pc = "done"
    /\ exitCode = 1

(* C4: for a non-uuid leaf action on a terminal with no positional value,  *)
(* with or without --raw, for_input prints one informational line, fails   *)
(* with the no-input-source error, never invokes the transform, and the    *)
(* run exits non-zero.                                                     *)
C4_NoInputSource ==
    (cmd \in LeafActions /\ tty /\ is.input = None
        /\ pc \notin {"start", "dispatch", "for_input"}) =>
        /\ pc \in {"context", "return", "done"}
        /\ calls = <<>>
        /\ stdinPos = 0
        /\ result = "Err"
        /\ NoInputMsg \in Range(err)
        /\ stdout = <<InfoLine>>
        /\ pc = "done" => (exitCode > 0 /\ stderr = <<err>>)

C4_Witness ==
    /\ cmd \in LeafActions /\ tty /\ is.input = None /\ is.raw
    /\ pc = "done"
    /\ exitCode = 1
    /\ stdout = <<InfoLine>>

(* C5: a run that ends in failure has written nothing to standard output.  *)
C5_NoStdoutOnFailure ==
    (pc = "done" /\ exitCode # 0) => stdout = <<>>

(* C6: when the provider of a fallible transform (b64 decode, json         *)
(* unminify) fails on the resolved input, nothing has been written to      *)
(* standard output and the run exits non-zero.                             *)
C6_FallibleTransformAtomic ==
    TransformFailed =>
        /\ cmd \in {"b64 decode", "json unminify"}
        /\ stdout = <<>>
        /\ result = "Err"
        /\ pc = "done" => exitCode > 0

C6_Witness ==
    /\ cmd = "b64 decode"
    /\ outcome = "invalid utf8"
    /\ Len(calls) = 1
    /\ pc = "done"
    /\ exitCode = 1

(* C7: with an empty pipe on standard input, input resolution does not     *)
(* fail: the transform is invoked exactly once, with the empty string, for *)
(* any positional value and raw flag; only the transform itself can fail.  *)
C7_EmptyPipe ==
    (cmd \in LeafActions /\ ~tty /\ stdin = <<>>
        /\ pc \notin {"start", "dispatch", "for_input", "read"}) =>
        /\ calls = <<[arg |-> <<>>, from |-> "stdin"]>>
        /\ result = "Err" => TransformFailed

C7_Witness ==
    /\ cmd \in LeafActions /\ ~tty /\ stdin = <<>>
    /\ is.input # None /\ is.raw
    /\ pc = "done"
    /\ exitCode = 0
    /\ calls = <<[arg |-> <<>>, from |-> "stdin"]>>

(* C8: when a non-uuid leaf action fails, the outermost context label of   *)
(* the error determines which of the ten leaf actions was running.         *)
C8_LabelNamesAction ==
    (cmd \in LeafActions /\ result = "Err" /\ pc \in {"return", "done"}) =>
        \A a \in LeafActions : Label(a) = err[1] => a = cmd

(* C9: the uuid command never goes through the input resolver, reads       *)
(* nothing from standard input, opens no file, prints exactly one line and *)
(* exits 0, whatever standard input is.                                    *)
C9_UuidNoInput ==
    (cmd = "uuid" /\ ValidArgs /\ pc # "start") =>
        /\ pc \in {"dispatch", "return", "done"}
        /\ stdinPos = 0
        /\ fileReads = <<>>
        /\ calls = <<>>
        /\ err = <<>>
        /\ pc \in {"return", "done"} =>
            (result = "Ok" /\ stdout = <<[fmt |-> "{}", by |-> "uuid", arg |-> <<>>]>>)
        /\ pc = "done" => (exitCode = 0 /\ stderr = <<>>)

C9_Witness ==
    /\ cmd = "uuid" /\ ~tty
    /\ Len(stdin) = MaxLines
    /\ pc = "done"
    /\ exitCode = 0

(* C10: with piped standard input the transform is invoked at most once,   *)
(* and only once standard input has been read to its end; if reading a     *)
(* line fails the run ends with a non-zero exit, the transform is never    *)
(* invoked and nothing is written to standard output.                      *)
C10_ReadFullyOrDie ==
    (cmd \in LeafActions /\ ~tty) =>
        /\ Len(calls) <= 1
        /\ calls # <<>> => (stdinPos = Len(stdin) /\ AllOk(stdin))
        /\ (~AllOk(stdin) /\ pc \notin {"start", "dispatch", "for_input", "read"}) =>
            /\ pc = "done"
            /\ exitCode > 0
            /\ calls = <<>>
            /\ outcome = "none"
            /\ stdout = <<>>

C10_Witness ==
    /\ cmd \in LeafActions /\ ~tty
    /\ Len(stdin) = 2 /\ stdin[1].ok /\ ~stdin[2].ok
    /\ lines = <<stdin[1].line>>
    /\ pc = "done"
    /\ exitCode = 101

====
